---- MODULE Spec2Model ----
(***************************************************************************)
(* A state-machine model of the archetype ECS storage engine of src/ecs.c. *)
(* C arrays are functions over 0..n-1, so that indexes, rows and byte      *)
(* offsets are the ones the C code computes.                               *)
(***************************************************************************)
EXTENDS Integers, Sequences, FiniteSets, TLC

\* ------------------------------------------------------------- bounds
\* Most calls of world_add_entity in one run.
MaxAdds == 4
\* Most component types registered on the World.
MaxComps == 2

\* Most calls of world_add_entity in one run that also stores field values.
MaxDataAdds == 3
\* The component types registered in the runs that add one entity per set of them.
WideComps == 8

\* The field-size lists world_add_component_type is called with.
FieldSizeLists == {<<2, 1>>}
\* The component-id lists world_add_entity is called with.
Signatures == {<<0>>, <<0, 1>>, <<1, 0>>}
\* The same, in the runs that also store field values.
DataSignatures == {<<0>>}
\* The values a caller stores in a field.
Values == {1, 2}
\* The signatures and the value of the runs that add to two archetypes and store field values.
FrameSignatures == {<<0>>, <<>>}
FrameValues == {1}

\* arch_id_t and comp_id_t are uint8_t: their counters wrap at 2^8.
ArchIdModulus == 256
CompIdModulus == 256

\* An indeterminate value: memory that was allocated and never written.
Uninit == -1
\* The null pointer world_get_component_field returns.
NULL == <<>>
\* An entry of a chunk's column table that holds no column vector.
NullColumns == [allocated |-> FALSE]

VARIABLES
    archetypes,                     \* World.archetypes
    number_of_archetypes,           \* World.number_of_archetypes
    id_stack_ids,                   \* World.id_stack_ids
    id_stack_capacity,              \* World.id_stack_capacity
    id_stack_top_index,             \* World.id_stack_top_index
    all_components_data,            \* World.all_components_data
    number_of_components,           \* World.number_of_components
    sparse_array_chunks,            \* World.sparse_array_chunks
    sparse_array_number_of_chunks,  \* World.sparse_array_number_of_chunks
    sparse_array_chunk_size,        \* World.sparse_array_chunk_size
    dense_array_chunk_size,         \* World.dense_array_chunk_size
    live,                           \* the caller's view: ids returned by add_entity and not removed since
    signature,                      \* the caller's view: the set of component ids each live id was added with
    freed,                          \* the caller's view: the ids removed, oldest first, less one (the newest) per add_entity since
    added,                          \* the caller's view: the number of add_entity calls so far
    removed,                        \* the caller's view: the number of remove_entity calls so far
    registered,                     \* the caller's view: the number of add_component_type calls so far
    fault,                          \* "none", or the out-of-bounds access the last call made
    last                            \* the last call and the id it returned or was given

world == <<archetypes, number_of_archetypes, id_stack_ids, id_stack_capacity,
           id_stack_top_index, all_components_data, number_of_components,
           sparse_array_chunks, sparse_array_number_of_chunks,
           sparse_array_chunk_size, dense_array_chunk_size>>
vars == <<world, live, signature, freed, added, removed, registered, fault, last>>

\* ------------------------------------------------------------- arrays
\* Realloc losing the elements the array held: every slot holds the new element.
Realloc_NotCopied(a, n, x) == [i \in 0..n |-> x]
\* realloc(a, n + 1) followed by a[n] = x: the first n elements are kept.
Realloc(a, n, x) == [i \in 0..n |-> IF i = n THEN x ELSE a[i]]
\* The C array holding the elements of the list s, in order.
ToArray(s) == [i \in 0..(Len(s) - 1) |-> s[i + 1]]
\* The set of elements of the first n slots of the array a.
Elems(a, n) == {a[i] : i \in 0..(n - 1)}
Min(S) == CHOOSE x \in S : \A y \in S : x <= y

\* ------------------------------------------------------------- sorting
\* compare_comp_ids calling every two ids equal.
compare_comp_ids_AlwaysEqual(id_a, id_b) == 0

compare_comp_ids(id_a, id_b) ==
    IF id_a < id_b THEN -1 ELSE IF id_a > id_b THEN 1 ELSE 0

\* qsort's step: x placed into the array a of n elements already in order.
RECURSIVE qsort_insert(_, _, _)
qsort_insert(a, n, x) ==
    IF n = 0 THEN [i \in 0..0 |-> x]
    ELSE IF compare_comp_ids(a[n - 1], x) <= 0
         THEN [i \in 0..n |-> IF i = n THEN x ELSE a[i]]
         ELSE LET b == qsort_insert([i \in 0..(n - 2) |-> a[i]], n - 1, x)
              IN  [i \in 0..n |-> IF i = n THEN a[n - 1] ELSE b[i]]

\* qsort leaving the array as it was passed.
qsort_Unsorted(a, n) == a

\* qsort(a, n, sizeof(comp_id_t), compare_comp_ids): a in the comparator's order.
RECURSIVE qsort(_, _)
qsort(a, n) ==
    IF n = 0 THEN a
    ELSE qsort_insert(qsort([i \in 0..(n - 2) |-> a[i]], n - 1), n - 1, a[n - 1])

\* ------------------------------------------------------------- components
component_data_init(field_sizes, number_of_fields) ==
    [number_of_fields |-> number_of_fields,
     field_sizes |-> [i \in 0..(number_of_fields - 1) |-> field_sizes[i]]]

\* ------------------------------------------------------------- chunks
\* archetype_data_chunk_init allocating the columns of every registered component.
archetype_data_chunk_init_AllColumns(acd, number_of_all_components, number_of_archetype_components, component_ids_of_archetype, chunk_size) ==
    [dense_arrays_length |-> 0,
     id_dense_array |-> [r \in 0..(chunk_size - 1) |-> Uninit],
     component_field_arrays |->
        [k \in 0..(number_of_all_components - 1) |->
            [allocated |-> TRUE,
             fields |-> [j \in 0..(acd[k].number_of_fields - 1) |->
                            [b \in 0..(acd[k].field_sizes[j] * chunk_size - 1) |-> Uninit]]]]]

\* The column table has number_of_all_components entries, all NULL but those
\* of the archetype's components, which hold one uninitialised array of
\* field_size * chunk_size bytes per field.
archetype_data_chunk_init(acd, number_of_all_components, number_of_archetype_components, component_ids_of_archetype, chunk_size) ==
    [dense_arrays_length |-> 0,
     id_dense_array |-> [r \in 0..(chunk_size - 1) |-> Uninit],
     component_field_arrays |->
        [k \in 0..(number_of_all_components - 1) |->
            IF k \in Elems(component_ids_of_archetype, number_of_archetype_components)
            THEN [allocated |-> TRUE,
                  fields |-> [j \in 0..(acd[k].number_of_fields - 1) |->
                                [b \in 0..(acd[k].field_sizes[j] * chunk_size - 1) |-> Uninit]]]
            ELSE NullColumns]]

\* ------------------------------------------------------------- archetypes
archetype_init(archetype_id, number_of_all_components, acd, number_of_archetype_components, component_ids_of_archetype, chunk_size, number_of_chunks) ==
    [number_of_chunks |-> number_of_chunks,
     chunk_size |-> chunk_size,
     number_of_components |-> number_of_archetype_components,
     archetype_id |-> archetype_id,
     chunks |-> [i \in 0..(number_of_chunks - 1) |->
                    archetype_data_chunk_init(acd, number_of_all_components,
                        number_of_archetype_components,
                        component_ids_of_archetype, chunk_size)],
     components |-> [i \in 0..(number_of_archetype_components - 1) |->
                        component_ids_of_archetype[i]]]

\* ChunksWithRoom looking at the last chunk only.
ChunksWithRoom_LastOnly(archetype) ==
    {i \in {archetype.number_of_chunks - 1} :
        archetype.chunks[i].dense_arrays_length < archetype.chunk_size}

\* The chunks with room for a row, which the scan of archetype_add_entity visits in order.
ChunksWithRoom(archetype) ==
    {i \in 0..(archetype.number_of_chunks - 1) :
        archetype.chunks[i].dense_arrays_length < archetype.chunk_size}

\* The result holds the archetype after the call and the two out-parameters;
\* oob says that the id was written outside the id array (chunk_size = 0).
archetype_add_entity(archetype, entity_id, number_of_all_components, acd) ==
    IF ChunksWithRoom(archetype) # {}
    THEN LET i == Min(ChunksWithRoom(archetype))
             n == archetype.chunks[i].dense_arrays_length
         IN  [archetype |-> [archetype EXCEPT
                                !.chunks[i].id_dense_array[n] = entity_id,
                                !.chunks[i].dense_arrays_length = n + 1],
              id_dense_array_index |-> n,
              chunk_index |-> i,
              oob |-> FALSE]
    ELSE LET n == archetype.number_of_chunks
             fresh == archetype_data_chunk_init(acd, number_of_all_components,
                          archetype.number_of_components, archetype.components,
                          archetype.chunk_size)
             placed == IF archetype.chunk_size > 0
                       THEN [fresh EXCEPT !.id_dense_array[0] = entity_id,
                                          !.dense_arrays_length = 1]
                       ELSE [fresh EXCEPT !.dense_arrays_length = 1]
         IN  [archetype |-> [archetype EXCEPT
                                !.number_of_chunks = n + 1,
                                !.chunks = Realloc(archetype.chunks, n, placed)],
              id_dense_array_index |-> 0,
              chunk_index |-> n,
              oob |-> archetype.chunk_size = 0]

\* ------------------------------------------------------------- sparse index
sparse_array_chunk_init(size) ==
    [archetypes |-> [i \in 0..(size - 1) |-> Uninit],
     chunk_indexes |-> [i \in 0..(size - 1) |-> Uninit],
     dense_id_array_indexes |-> [i \in 0..(size - 1) |-> Uninit]]

\* ------------------------------------------------------------- world
\* The state world_create returns.
world_create(dense_chunk_size, sparse_chunk_size, starting_sparse_array_chunks) ==
    /\ archetypes = <<>>
    /\ number_of_archetypes = 0
    /\ id_stack_capacity = sparse_chunk_size
    /\ id_stack_top_index = 0
    /\ id_stack_ids = [i \in 0..(sparse_chunk_size - 1) |-> i]
    /\ all_components_data = <<>>
    /\ number_of_components = 0
    /\ sparse_array_chunk_size = sparse_chunk_size
    /\ sparse_array_number_of_chunks = starting_sparse_array_chunks
    /\ sparse_array_chunks = [c \in 0..(starting_sparse_array_chunks - 1) |-> sparse_array_chunk_init(sparse_chunk_size)]
    /\ dense_array_chunk_size = dense_chunk_size

\* world_match_archetype with a scan that stops one archetype early.
world_match_archetype_SkipsLast(number_of_comps, components) ==
    LET matches == {a \in 0..(number_of_archetypes - 2) :
                      /\ archetypes[a].number_of_components = number_of_comps
                      /\ \A c \in 0..(number_of_comps - 1) :
                            archetypes[a].components[c] = components[c]}
    IN  IF matches # {} THEN [matched |-> TRUE, matched_arch_id |-> Min(matches)]
        ELSE [matched |-> FALSE, matched_arch_id |-> 0]

\* The lowest archetype id whose components list equals the n given ids, or none.
world_match_archetype(number_of_comps, components) ==
    LET matches == {a \in 0..(number_of_archetypes - 1) :
                      /\ archetypes[a].number_of_components = number_of_comps
                      /\ \A c \in 0..(number_of_comps - 1) :
                            archetypes[a].components[c] = components[c]}
    IN  IF matches # {} THEN [matched |-> TRUE, matched_arch_id |-> Min(matches)]
        ELSE [matched |-> FALSE, matched_arch_id |-> 0]

\* The archetype array and counter after world_add_archetype, and the id it returns.
world_add_archetype(number_of_comps, components) ==
    LET fresh == archetype_init(number_of_archetypes, number_of_components, all_components_data, number_of_comps, components, dense_array_chunk_size, 1)
    IN  [archetypes |-> Realloc(archetypes, number_of_archetypes, fresh),
         number_of_archetypes |-> (number_of_archetypes + 1) % ArchIdModulus,
         ret |-> number_of_archetypes]

\* world_add_component_type: the registry after the call; the id returned is the old counter.
AddComponentType(field_sizes, number_of_fields) ==
    /\ fault = "none"
    /\ all_components_data' = Realloc(all_components_data, number_of_components, component_data_init(field_sizes, number_of_fields))
    /\ number_of_components' = (number_of_components + 1) % CompIdModulus
    /\ last' = [op |-> "add_component_type", id |-> number_of_components]
    /\ registered' = registered + 1
    /\ UNCHANGED <<archetypes, number_of_archetypes, id_stack_ids, id_stack_capacity, id_stack_top_index>>
    /\ UNCHANGED <<sparse_array_chunks, sparse_array_number_of_chunks, sparse_array_chunk_size, dense_array_chunk_size>>
    /\ UNCHANGED <<live, signature, freed, added, removed, fault>>

\* IdStackPop seeding the new half of the stack with its ids in descending order.
IdStackPop_SeedsDescending ==
    LET grow == id_stack_top_index >= id_stack_capacity
        capacity == IF grow THEN id_stack_capacity * 2 ELSE id_stack_capacity
        ids == IF grow
               THEN [i \in 0..(capacity - 1) |->
                        IF i >= id_stack_top_index THEN capacity - 1 - (i - id_stack_top_index)
                        ELSE IF i < id_stack_capacity THEN id_stack_ids[i] ELSE Uninit]
               ELSE id_stack_ids
    IN  [capacity |-> capacity,
         ids |-> ids,
         oob |-> id_stack_top_index >= capacity,
         id |-> IF id_stack_top_index < capacity THEN ids[id_stack_top_index] ELSE Uninit,
         top |-> id_stack_top_index + 1]

\* IdStackPop seeding the new half of the stack from zero.
IdStackPop_SeedsFromZero ==
    LET grow == id_stack_top_index >= id_stack_capacity
        capacity == IF grow THEN id_stack_capacity * 2 ELSE id_stack_capacity
        ids == IF grow
               THEN [i \in 0..(capacity - 1) |->
                        IF i >= id_stack_top_index THEN i - id_stack_top_index
                        ELSE IF i < id_stack_capacity THEN id_stack_ids[i] ELSE Uninit]
               ELSE id_stack_ids
    IN  [capacity |-> capacity,
         ids |-> ids,
         oob |-> id_stack_top_index >= capacity,
         id |-> IF id_stack_top_index < capacity THEN ids[id_stack_top_index] ELSE Uninit,
         top |-> id_stack_top_index + 1]

\* world_add_entity, first step: the id popped from the stack, which doubles when exhausted.
IdStackPop ==
    LET grow == id_stack_top_index >= id_stack_capacity
        capacity == IF grow THEN id_stack_capacity * 2 ELSE id_stack_capacity
        ids == IF grow
               THEN [i \in 0..(capacity - 1) |->
                        IF i >= id_stack_top_index THEN i
                        ELSE IF i < id_stack_capacity THEN id_stack_ids[i] ELSE Uninit]
               ELSE id_stack_ids
    IN  [capacity |-> capacity,
         ids |-> ids,
         oob |-> id_stack_top_index >= capacity,
         id |-> IF id_stack_top_index < capacity THEN ids[id_stack_top_index] ELSE Uninit,
         top |-> id_stack_top_index + 1]

\* SparseSet recording chunk 0 whatever chunk the entity was put in.
SparseSet_ChunkZero(id, arch_id, chunk_index, id_dense_array_index) ==
    LET sparse_chunk_index == id \div sparse_array_chunk_size
        grow == sparse_chunk_index >= sparse_array_number_of_chunks
        new_chunk_count == IF grow THEN sparse_array_number_of_chunks + 1 ELSE sparse_array_number_of_chunks
        chunks == IF grow
                  THEN Realloc(sparse_array_chunks, sparse_array_number_of_chunks, sparse_array_chunk_init(sparse_array_chunk_size))
                  ELSE sparse_array_chunks
        local_id_index == id % sparse_array_chunk_size
        oob == sparse_chunk_index >= new_chunk_count
    IN  [count |-> new_chunk_count,
         oob |-> oob,
         chunks |-> IF oob THEN chunks
                    ELSE [chunks EXCEPT
                            ![sparse_chunk_index].archetypes[local_id_index] = arch_id,
                            ![sparse_chunk_index].chunk_indexes[local_id_index] = 0,
                            ![sparse_chunk_index].dense_id_array_indexes[local_id_index] = id_dense_array_index]]

\* world_add_entity, last step: the sparse index grown by one sub-array if the id's sub-array is missing, then the entry written.
SparseSet(id, arch_id, chunk_index, id_dense_array_index) ==
    LET sparse_chunk_index == id \div sparse_array_chunk_size
        grow == sparse_chunk_index >= sparse_array_number_of_chunks
        new_chunk_count == IF grow THEN sparse_array_number_of_chunks + 1 ELSE sparse_array_number_of_chunks
        chunks == IF grow
                  THEN Realloc(sparse_array_chunks, sparse_array_number_of_chunks, sparse_array_chunk_init(sparse_array_chunk_size))
                  ELSE sparse_array_chunks
        local_id_index == id % sparse_array_chunk_size
        oob == sparse_chunk_index >= new_chunk_count
    IN  [count |-> new_chunk_count,
         oob |-> oob,
         chunks |-> IF oob THEN chunks
                    ELSE [chunks EXCEPT
                            ![sparse_chunk_index].archetypes[local_id_index] = arch_id,
                            ![sparse_chunk_index].chunk_indexes[local_id_index] = chunk_index,
                            ![sparse_chunk_index].dense_id_array_indexes[local_id_index] = id_dense_array_index]]

\* What _aligned_malloc(size, CACHE_SIZE) returns is the C library's choice when
\* size is 0: a pointer to no bytes, or NULL, on which archetype_data_chunk_init
\* calls exit(EXIT_FAILURE).
AlignedMallocReturns(size) == IF size = 0 THEN {"pointer", "NULL"} ELSE {"pointer"}

\* world_add_entity(world, number_of_comps, components)
AddEntity(number_of_comps, components) ==
    /\ fault = "none"
    /\ \E id_dense_array_ptr \in AlignedMallocReturns(dense_array_chunk_size) :
       LET pop == IdStackPop
           id == pop.id
           sorted_components == qsort(components, number_of_comps)
           m == world_match_archetype(number_of_comps, sorted_components)
           found == IF m.matched
                    THEN [archetypes |-> archetypes, number_of_archetypes |-> number_of_archetypes, ret |-> m.matched_arch_id]
                    ELSE world_add_archetype(number_of_comps, sorted_components)
           matched_arch_id == found.ret
           placed == archetype_add_entity(found.archetypes[matched_arch_id], id, number_of_components, all_components_data)
           sparse == SparseSet(id, matched_arch_id, placed.chunk_index, placed.id_dense_array_index)
           chunk_allocated == ~m.matched \/ ChunksWithRoom(found.archetypes[matched_arch_id]) = {}
       IN  IF ~pop.oob /\ chunk_allocated /\ id_dense_array_ptr = "NULL"
           THEN /\ fault' = "exit(EXIT_FAILURE)"
                /\ last' = [op |-> "add_entity", id |-> Uninit]
                /\ added' = added + 1
                /\ UNCHANGED <<archetypes, number_of_archetypes, id_stack_ids, id_stack_capacity, id_stack_top_index>>
                /\ UNCHANGED <<sparse_array_chunks, sparse_array_number_of_chunks, live, signature, freed>>
           ELSE
           IF pop.oob
           THEN /\ fault' = "id_stack_ids read out of bounds"
                /\ id_stack_capacity' = pop.capacity
                /\ id_stack_ids' = pop.ids
                /\ last' = [op |-> "add_entity", id |-> Uninit]
                /\ UNCHANGED <<archetypes, number_of_archetypes, id_stack_top_index, sparse_array_chunks, sparse_array_number_of_chunks>>
                /\ added' = added + 1
                /\ UNCHANGED <<live, signature, freed>>
           ELSE /\ id_stack_capacity' = pop.capacity
                /\ id_stack_ids' = pop.ids
                /\ id_stack_top_index' = pop.top
                /\ archetypes' = [found.archetypes EXCEPT ![matched_arch_id] = placed.archetype]
                /\ number_of_archetypes' = found.number_of_archetypes
                /\ sparse_array_chunks' = sparse.chunks
                /\ sparse_array_number_of_chunks' = sparse.count
                /\ fault' = IF placed.oob THEN "id_dense_array written out of bounds"
                            ELSE IF sparse.oob THEN "sparse_array_chunks written out of bounds"
                            ELSE "none"
                /\ added' = added + 1
                /\ live' = live \cup {id}
                /\ signature' = [e \in live \cup {id} |-> IF e = id THEN components ELSE signature[e]]
                /\ freed' = IF freed # <<>> THEN SubSeq(freed, 1, Len(freed) - 1) ELSE <<>>
                /\ last' = [op |-> "add_entity", id |-> id]
    /\ UNCHANGED <<all_components_data, number_of_components, sparse_array_chunk_size, dense_array_chunk_size, removed, registered>>

\* memcpy(column + dest, column + src, n) within one column.
memcpy(column, dest, src, n) ==
    [b \in DOMAIN column |-> IF b >= dest /\ b < dest + n THEN column[src + (b - dest)] ELSE column[b]]

\* MoveLastRow with the row indexes not multiplied by the field size.
MoveLastRow_Unscaled(archetype, chunk, dense_id_array_index, last_element_index) ==
    [k \in DOMAIN chunk.component_field_arrays |->
        IF k \in Elems(archetype.components, archetype.number_of_components)
        THEN [chunk.component_field_arrays[k] EXCEPT !.fields =
                [f \in 0..(all_components_data[k].number_of_fields - 1) |->
                    memcpy(chunk.component_field_arrays[k].fields[f], dense_id_array_index, last_element_index, all_components_data[k].field_sizes[f])]]
        ELSE chunk.component_field_arrays[k]]

\* world_remove_entity, the copy loop: in every column of the archetype's components, the bytes of row last_element_index copied to row dense_id_array_index.
MoveLastRow(archetype, chunk, dense_id_array_index, last_element_index) ==
    [k \in DOMAIN chunk.component_field_arrays |->
        IF k \in Elems(archetype.components, archetype.number_of_components)
        THEN [chunk.component_field_arrays[k] EXCEPT !.fields =
                [f \in 0..(all_components_data[k].number_of_fields - 1) |->
                    LET field_size == all_components_data[k].field_sizes[f]
                    IN  memcpy(chunk.component_field_arrays[k].fields[f], dense_id_array_index * field_size, last_element_index * field_size, field_size)]]
        ELSE chunk.component_field_arrays[k]]

\* MoveLastId leaving the id array as it was.
MoveLastId_NotMoved(id_dense_array, dense_id_array_index, last_element_index) ==
    id_dense_array

\* world_remove_entity, the id move: the id of the last live row written over the removed row's id.
MoveLastId(id_dense_array, dense_id_array_index, last_element_index) ==
    [id_dense_array EXCEPT ![dense_id_array_index] = id_dense_array[last_element_index]]

\* IdStackPush storing the id without moving the top.
IdStackPush_KeepsTop(entity_id) ==
    [ids |-> [id_stack_ids EXCEPT ![id_stack_top_index - 1] = entity_id],
     top |-> id_stack_top_index]

\* IdStackPush moving the top without storing the id.
IdStackPush_NotStored(entity_id) ==
    [ids |-> id_stack_ids, top |-> id_stack_top_index - 1]

\* world_remove_entity, first step: the id pushed back on the stack.
IdStackPush(entity_id) ==
    [ids |-> [id_stack_ids EXCEPT ![id_stack_top_index - 1] = entity_id],
     top |-> id_stack_top_index - 1]

\* SparseMove writing the row and also resetting the chunk index of the moved entity.
SparseMove_ChunkReset(last_entity_id, dense_id_array_index) ==
    LET sparse_chunk_for_moved_entity == last_entity_id \div sparse_array_chunk_size
        local_id_for_moved_entity == last_entity_id % sparse_array_chunk_size
    IN  [sparse_array_chunks EXCEPT
            ![sparse_chunk_for_moved_entity].dense_id_array_indexes[local_id_for_moved_entity] = dense_id_array_index,
            ![sparse_chunk_for_moved_entity].chunk_indexes[local_id_for_moved_entity] = 0]

\* SparseMove without its write: the moved entity's sparse entry keeps the old row.
SparseMove_NotPatched(last_entity_id, dense_id_array_index) ==
    sparse_array_chunks

\* world_remove_entity, last step: the moved entity's sparse entry gets the row it was moved to.
SparseMove(last_entity_id, dense_id_array_index) ==
    LET sparse_chunk_for_moved_entity == last_entity_id \div sparse_array_chunk_size
        local_id_for_moved_entity == last_entity_id % sparse_array_chunk_size
    IN  [sparse_array_chunks EXCEPT
            ![sparse_chunk_for_moved_entity].dense_id_array_indexes[local_id_for_moved_entity] = dense_id_array_index]

\* world_remove_entity(world, entity_id), called on a live id.
RemoveEntity(entity_id) ==
    /\ fault = "none"
    /\ entity_id \in live
    /\ LET sparse_array_chunk_index == entity_id \div sparse_array_chunk_size
           sparse_array_chunk == sparse_array_chunks[sparse_array_chunk_index]
           local_id_index == entity_id % sparse_array_chunk_size
           archetype_id == sparse_array_chunk.archetypes[local_id_index]
           chunk_index == sparse_array_chunk.chunk_indexes[local_id_index]
           dense_id_array_index == sparse_array_chunk.dense_id_array_indexes[local_id_index]
           archetype == archetypes[archetype_id]
           archetype_data_chunk == archetype.chunks[chunk_index]
           dense_id_array_length == archetype_data_chunk.dense_arrays_length
           last_element_index == dense_id_array_length - 1
           last_entity_id == archetype_data_chunk.id_dense_array[last_element_index]
       IN  /\ id_stack_ids' = IdStackPush(entity_id).ids
           /\ id_stack_top_index' = IdStackPush(entity_id).top
           /\ IF dense_id_array_index = last_element_index
              THEN /\ archetypes' = [archetypes EXCEPT ![archetype_id].chunks[chunk_index].dense_arrays_length = dense_id_array_length - 1]
                   /\ UNCHANGED sparse_array_chunks
              ELSE /\ archetypes' = [archetypes EXCEPT ![archetype_id].chunks[chunk_index] =
                            [archetype_data_chunk EXCEPT
                                !.id_dense_array = MoveLastId(archetype_data_chunk.id_dense_array, dense_id_array_index, last_element_index),
                                !.component_field_arrays = MoveLastRow(archetype, archetype_data_chunk, dense_id_array_index, last_element_index),
                                !.dense_arrays_length = dense_id_array_length - 1]]
                   /\ sparse_array_chunks' = SparseMove(last_entity_id, dense_id_array_index)
    /\ live' = live \ {entity_id}
    /\ signature' = [e \in live \ {entity_id} |-> signature[e]]
    /\ freed' = Append(freed, entity_id)
    /\ last' = [op |-> "remove_entity", id |-> entity_id]
    /\ UNCHANGED <<number_of_archetypes, id_stack_capacity, all_components_data, number_of_components>>
    /\ UNCHANGED <<sparse_array_number_of_chunks, sparse_array_chunk_size, dense_array_chunk_size, added, registered, fault>>
    /\ removed' = removed + 1

\* world_get_component_field without the range check: the sub-array index wraps around the sub-arrays there are.
world_get_component_field_WrapsIndex(entity_id, component_id, field_index) ==
    LET sparse_chunk_index == (entity_id \div sparse_array_chunk_size) % sparse_array_number_of_chunks
        sparse_array_chunk == sparse_array_chunks[sparse_chunk_index]
        local_id_index == entity_id % sparse_array_chunk_size
        archetype_id == sparse_array_chunk.archetypes[local_id_index]
        chunk_index == sparse_array_chunk.chunk_indexes[local_id_index]
        dense_id_array_index == sparse_array_chunk.dense_id_array_indexes[local_id_index]
        has_component == archetype_id # Uninit /\ \E i \in 0..(archetypes[archetype_id].number_of_components - 1) : archetypes[archetype_id].components[i] = component_id
    IN  IF ~has_component THEN NULL
        ELSE IF field_index >= all_components_data[component_id].number_of_fields THEN NULL
        ELSE <<archetype_id, chunk_index, component_id, field_index,
               dense_id_array_index * all_components_data[component_id].field_sizes[field_index]>>

\* world_get_component_field returning the column base plus the row, not the row times the field size.
world_get_component_field_Unscaled(entity_id, component_id, field_index) ==
    LET sparse_chunk_index == entity_id \div sparse_array_chunk_size
    IN  IF sparse_chunk_index >= sparse_array_number_of_chunks THEN NULL
        ELSE LET sparse_array_chunk == sparse_array_chunks[sparse_chunk_index]
                 local_id_index == entity_id % sparse_array_chunk_size
                 archetype_id == sparse_array_chunk.archetypes[local_id_index]
                 archetype == archetypes[archetype_id]
                 has_component == \E i \in 0..(archetype.number_of_components - 1) : archetype.components[i] = component_id
             IN  IF ~has_component THEN NULL
                 ELSE IF field_index >= all_components_data[component_id].number_of_fields THEN NULL
                 ELSE <<archetype_id, sparse_array_chunk.chunk_indexes[local_id_index], component_id, field_index,
                        sparse_array_chunk.dense_id_array_indexes[local_id_index]>>

\* world_get_component_field(world, entity_id, component_id, field_index): NULL, or the
\* address <<archetype, chunk, component, field, byte offset>> inside one column.
world_get_component_field(entity_id, component_id, field_index) ==
    LET sparse_chunk_index == entity_id \div sparse_array_chunk_size
    IN  IF sparse_chunk_index >= sparse_array_number_of_chunks THEN NULL
        ELSE LET sparse_array_chunk == sparse_array_chunks[sparse_chunk_index]
                 local_id_index == entity_id % sparse_array_chunk_size
                 archetype_id == sparse_array_chunk.archetypes[local_id_index]
                 chunk_index == sparse_array_chunk.chunk_indexes[local_id_index]
                 dense_id_array_index == sparse_array_chunk.dense_id_array_indexes[local_id_index]
                 archetype == archetypes[archetype_id]
                 has_component == \E i \in 0..(archetype.number_of_components - 1) : archetype.components[i] = component_id
             IN  IF ~has_component THEN NULL
                 ELSE IF field_index >= all_components_data[component_id].number_of_fields THEN NULL
                 ELSE <<archetype_id, chunk_index, component_id, field_index,
                        dense_id_array_index * all_components_data[component_id].field_sizes[field_index]>>

does_archetype_have_components(archetype, comp_ids, number_of_comps) ==
    IF archetype.number_of_components < number_of_comps THEN FALSE
    ELSE \A c \in 0..(number_of_comps - 1) :
            \E ac \in 0..(archetype.number_of_components - 1) : archetype.components[ac] = comp_ids[c]

\* IteratorChunks passing over the chunks that hold no row.
RECURSIVE IteratorChunks_SkipsEmpty(_, _, _)
IteratorChunks_SkipsEmpty(a, component_ids, number_of_comps) ==
    IF a >= number_of_archetypes THEN <<>>
    ELSE (IF does_archetype_have_components(archetypes[a], component_ids, number_of_comps)
          THEN SelectSeq([i \in 1..archetypes[a].number_of_chunks |-> <<a, i - 1>>],
                         LAMBDA p : archetypes[p[1]].chunks[p[2]].dense_arrays_length > 0)
          ELSE <<>>) \o IteratorChunks_SkipsEmpty(a + 1, component_ids, number_of_comps)

\* The <<archetype, chunk>> pairs the second loop of world_get_component_iterator
\* visits, from archetype a on: archetypes by id, chunks by index.
RECURSIVE IteratorChunks(_, _, _)
IteratorChunks(a, component_ids, number_of_comps) ==
    IF a >= number_of_archetypes THEN <<>>
    ELSE (IF does_archetype_have_components(archetypes[a], component_ids, number_of_comps)
          THEN [i \in 1..archetypes[a].number_of_chunks |-> <<a, i - 1>>]
          ELSE <<>>) \o IteratorChunks(a + 1, component_ids, number_of_comps)

\* world_get_component_iterator(world, component_ids, number_of_comps). Entry co of
\* record i is the column-vector pointer the chunk's table holds for
\* component_ids[co], written <<archetype, chunk, component>>.
world_get_component_iterator(component_ids, number_of_comps) ==
    LET visited == ToArray(IteratorChunks(0, component_ids, number_of_comps))
        total_chunks == Cardinality(DOMAIN visited)
    IN  IF total_chunks = 0
        THEN [component_field_arrays |-> NULL, chunk_lengths |-> NULL, number_of_chunks |-> 0]
        ELSE [component_field_arrays |->
                [i \in 0..(total_chunks - 1) |->
                    [co \in 0..(number_of_comps - 1) |->
                        IF archetypes[visited[i][1]].chunks[visited[i][2]].component_field_arrays[component_ids[co]].allocated
                        THEN <<visited[i][1], visited[i][2], component_ids[co]>>
                        ELSE NULL]],
              chunk_lengths |->
                [i \in 0..(total_chunks - 1) |->
                    archetypes[visited[i][1]].chunks[visited[i][2]].dense_arrays_length],
              number_of_chunks |-> total_chunks]

\* The column an address returned by world_get_component_field points into.
ColumnAt(ptr) == archetypes[ptr[1]].chunks[ptr[2]].component_field_arrays[ptr[3]].fields[ptr[4]]

\* The n bytes a caller reads at a field address.
ReadBytes(ptr, n) == [k \in 0..(n - 1) |-> ColumnAt(ptr)[ptr[5] + k]]

\* The bytes of the value v of a field of n bytes.
BytesOf(v, n) == [k \in 0..(n - 1) |-> 10 * v + k]

\* The caller stores the value v at the address world_get_component_field returned.
WriteField(entity_id, component_id, field_index, v) ==
    /\ fault = "none"
    /\ entity_id \in live
    /\ LET ptr == world_get_component_field(entity_id, component_id, field_index)
       IN  /\ ptr # NULL
           /\ LET field_size == all_components_data[component_id].field_sizes[field_index]
                  bytes == BytesOf(v, field_size)
              IN  /\ ReadBytes(ptr, field_size) # bytes
                  /\ archetypes' = [archetypes EXCEPT ![ptr[1]].chunks[ptr[2]].component_field_arrays[ptr[3]].fields[ptr[4]] =
                        [b \in DOMAIN @ |-> IF b >= ptr[5] /\ b < ptr[5] + field_size THEN bytes[b - ptr[5]] ELSE @[b]]]
    /\ last' = [op |-> "write_field", id |-> entity_id]
    /\ UNCHANGED <<number_of_archetypes, id_stack_ids, id_stack_capacity, id_stack_top_index, all_components_data, number_of_components>>
    /\ UNCHANGED <<sparse_array_chunks, sparse_array_number_of_chunks, sparse_array_chunk_size, dense_array_chunk_size>>
    /\ UNCHANGED <<live, signature, freed, added, removed, registered, fault>>

\* ------------------------------------------------------------- specification
\* The state after world_create and before any other call.
InitWith(dense_sizes, sparse_sizes, starting_chunks) ==
    /\ \E d \in dense_sizes, s \in sparse_sizes, c \in starting_chunks : world_create(d, s, c)
    /\ live = {}
    /\ signature = <<>>
    /\ freed = <<>>
    /\ added = 0
    /\ removed = 0
    /\ registered = 0
    /\ fault = "none"
    /\ last = [op |-> "world_create", id |-> Uninit]

\* The lists of sigs whose ids are all registered, as the arrays add_entity receives.
Registered(sigs) ==
    {ToArray(s) : s \in {t \in sigs : \A i \in DOMAIN t : t[i] < number_of_components}}

\* Entities of two archetypes, added with either order of a two-component
\* signature, in chunks of two rows; components are registered at any time.
Init == InitWith({2}, {2}, {1})

Next ==
    \/ \E fs \in FieldSizeLists : number_of_components < MaxComps /\ AddComponentType(ToArray(fs), Len(fs))
    \/ \E s \in Registered(Signatures) : added < MaxAdds /\ AddEntity(Cardinality(DOMAIN s), s)
    \/ \E e \in live : RemoveEntity(e)

Spec == Init /\ [][Next]_vars

\* Entities of one archetype whose fields the caller writes between the calls;
\* the caller registers the components its signatures name.
NextData ==
    \/ \E fs \in FieldSizeLists : Registered(DataSignatures) # {ToArray(t) : t \in DataSignatures} /\ AddComponentType(ToArray(fs), Len(fs))
    \/ \E s \in Registered(DataSignatures) : added < MaxDataAdds /\ AddEntity(Cardinality(DOMAIN s), s)
    \/ \E e \in live : RemoveEntity(e)
    \/ \E e \in live, c \in 0..(number_of_components - 1), f \in 0..1, v \in Values : WriteField(e, c, f, v)

SpecData == Init /\ [][NextData]_vars

\* Entities with and without a component, so that an archetype is created
\* while entities with written fields are live.
NextFrame ==
    \/ \E fs \in FieldSizeLists : Registered(FrameSignatures) # {ToArray(t) : t \in FrameSignatures} /\ AddComponentType(ToArray(fs), Len(fs))
    \/ \E s \in Registered(FrameSignatures) : added < MaxDataAdds /\ AddEntity(Cardinality(DOMAIN s), s)
    \/ \E e \in live : RemoveEntity(e)
    \/ \E e \in live, c \in 0..(number_of_components - 1), f \in 0..1, v \in FrameValues : WriteField(e, c, f, v)

SpecFrame == Init /\ [][NextFrame]_vars

\* Entities without components, on Worlds of every small shape.
InitIds == InitWith({1, 2}, {1, 2, 3}, {0, 1, 2})

NextIds ==
    \/ \E s \in Registered({<<>>}) : added < MaxAdds + 1 /\ AddEntity(Cardinality(DOMAIN s), s)
    \/ \E e \in live : RemoveEntity(e)

SpecIds == InitIds /\ [][NextIds]_vars

\* Entities without components on Worlds of every small dense chunk size, zero included.
InitSizes == InitWith({0, 1, 2, 3}, {2}, {1})

SpecSizes == InitSizes /\ [][NextIds]_vars

\* One entity at a time, each added with a signature no entity had before: the
\* k-th add names the components whose bit is set in k, highest id first.
WideSignature(k) ==
    LET S == {i \in 0..(WideComps - 1) : (k \div (2 ^ i)) % 2 = 1}
    IN  [j \in 0..(Cardinality(S) - 1) |-> CHOOSE x \in S : Cardinality({y \in S : y > x}) = j]

NextWide ==
    \/ \E fs \in FieldSizeLists : number_of_components < WideComps /\ AddComponentType(ToArray(fs), Len(fs))
    \/ /\ number_of_components = WideComps
       /\ live = {}
       /\ added < 2 ^ WideComps
       /\ AddEntity(Cardinality(DOMAIN WideSignature(added)), WideSignature(added))
    \/ \E e \in live : RemoveEntity(e)

SpecWide == Init /\ [][NextWide]_vars

\* One component type after another, for one more registration than comp_id_t
\* has values; an entity without components is added before the second
\* registration and removed at any time.
NextTypes ==
    \/ \E fs \in FieldSizeLists : registered < CompIdModulus + 1 /\ AddComponentType(ToArray(fs), Len(fs))
    \/ \E s \in Registered({<<>>}) : added < 1 /\ registered < 2 /\ AddEntity(Cardinality(DOMAIN s), s)
    \/ \E e \in live : RemoveEntity(e)

SpecTypes == Init /\ [][NextTypes]_vars

\* The entries of the chunk's column table that archetype_data_chunk_destroy reads,
\* called by world_destroy with the number of registered components.
archetype_data_chunk_destroy_reads(chunk, number_of_all_components) ==
    0..(number_of_all_components - 1)

\* ------------------------------------------------------------- observations
\* The sparse entry of the id e: its archetype a, chunk c and row r.
SparseEntry(e) ==
    LET sparse_array_chunk == sparse_array_chunks[e \div sparse_array_chunk_size]
        local_id_index == e % sparse_array_chunk_size
    IN  [a |-> sparse_array_chunk.archetypes[local_id_index],
         c |-> sparse_array_chunk.chunk_indexes[local_id_index],
         r |-> sparse_array_chunk.dense_id_array_indexes[local_id_index]]

\* The chunk the sparse entry of e names.
ChunkOf(e) == archetypes[SparseEntry(e).a].chunks[SparseEntry(e).c]

\* e is where a swap-pop left it: in a row below the length of its chunk, with
\* the copy of its id that the swap left behind in the first dead row.
MovedBySwapPop(e) ==
    /\ ChunkOf(e).dense_arrays_length < dense_array_chunk_size
    /\ ChunkOf(e).id_dense_array[ChunkOf(e).dense_arrays_length] = e
    /\ SparseEntry(e).r < ChunkOf(e).dense_arrays_length

\* The bytes a caller reads through world_get_component_field(e, c, f), or NULL.
FieldValue(e, c, f) ==
    LET ptr == world_get_component_field(e, c, f)
    IN  IF ptr = NULL THEN NULL ELSE ReadBytes(ptr, all_components_data[c].field_sizes[f])

\* The set of component ids the live entity e was added with.
SignatureSet(e) == {signature[e][i] : i \in DOMAIN signature[e]}

\* The component ids and field indexes callers ask for: one more than exist.
AskedComps == 0..number_of_components
AskedFields == 0..2

\* The requests world_get_component_iterator is called with: every list of at
\* most two registered component ids, a repeated id included.
Requests ==
    UNION {[0..(n - 1) -> 0..(number_of_components - 1)] : n \in 0..2}

\* How many rows below the lengths the iterator reports hold the id e, over
\* the chunks the iterator emits for the request.
VisibleCount(e, component_ids, number_of_comps) ==
    LET it == world_get_component_iterator(component_ids, number_of_comps)
        visited == ToArray(IteratorChunks(0, component_ids, number_of_comps))
    IN  Cardinality({p \in (0..(it.number_of_chunks - 1)) \X (0..(dense_array_chunk_size - 1)) :
            /\ p[2] < it.chunk_lengths[p[1]]
            /\ archetypes[visited[p[1]][1]].chunks[visited[p[1]][2]].id_dense_array[p[2]] = e})

\* The chunk has a column vector of its own for the component id k.
HasColumns(chunk, k) ==
    /\ k \in DOMAIN chunk.component_field_arrays
    /\ chunk.component_field_arrays[k].allocated

\* The positions <<archetype, chunk>> of all chunks of the World.
AllChunks ==
    {p \in (0..(number_of_archetypes - 1)) \X (0..MaxAdds) : p[2] < archetypes[p[1]].number_of_chunks}

RECURSIVE Pow2(_)
Pow2(k) == IF k = 0 THEN 1 ELSE 2 * Pow2(k - 1)

\* ------------------------------------------------------------- claims
\* C1: for every live entity e with sparse entry (a, c, r): the sparse index has
\* the sub-array of e, a is an existing archetype, c an existing chunk of a,
\* r is below that chunk's length, and the chunk's id array holds e at row r.
C1_SparseDenseConsistency ==
    \A e \in live :
        /\ e \div sparse_array_chunk_size < sparse_array_number_of_chunks
        /\ SparseEntry(e).a \in 0..(number_of_archetypes - 1)
        /\ SparseEntry(e).c \in 0..(archetypes[SparseEntry(e).a].number_of_chunks - 1)
        /\ SparseEntry(e).r \in 0..(ChunkOf(e).dense_arrays_length - 1)
        /\ ChunkOf(e).id_dense_array[SparseEntry(e).r] = e

\* A remove has just swap-popped a live entity, while another entity lives in
\* a second chunk of some archetype.
C1_Witness ==
    /\ last.op = "remove_entity"
    /\ \E e \in live : MovedBySwapPop(e)
    /\ \E e \in live : SparseEntry(e).c = 1

\* C2: a world_remove_entity(d) leaves every field value of every surviving
\* entity as it was: what a caller reads through world_get_component_field
\* before the call is what it reads after it, also for the entity the
\* swap-pop moves into d's row.
C2_RemovePreservesData ==
    [][(removed' = removed + 1) =>
        \A e \in live', c \in AskedComps, f \in AskedFields :
            FieldValue(e, c, f)' = FieldValue(e, c, f)]_vars

\* A remove has just moved an entity whose two fields the caller had written.
C2_Witness ==
    /\ last.op = "remove_entity"
    /\ \E e \in live :
        /\ MovedBySwapPop(e)
        /\ FieldValue(e, 0, 0) = BytesOf(2, 2)
        /\ FieldValue(e, 0, 1) = BytesOf(1, 1)

\* C3: for every request R, each live entity whose component set is a superset
\* of R is seen exactly once in the rows the iterator exposes, and no other id
\* is seen.
C3_IteratorCoverage ==
    \A R \in Requests : \A e \in 0..(id_stack_capacity - 1) :
        VisibleCount(e, R, Cardinality(DOMAIN R)) =
            IF e \in live /\ {R[i] : i \in DOMAIN R} \subseteq SignatureSet(e) THEN 1 ELSE 0

\* C3 for the requests that name no component id twice.
C3_CoverageOfDuplicateFreeRequests ==
    \A R \in {Q \in Requests : \A i, j \in DOMAIN Q : i # j => Q[i] # Q[j]} :
        \A e \in 0..(id_stack_capacity - 1) :
            VisibleCount(e, R, Cardinality(DOMAIN R)) =
                IF e \in live /\ {R[i] : i \in DOMAIN R} \subseteq SignatureSet(e) THEN 1 ELSE 0

\* C4: for a live entity e, world_get_component_field(e, c, f) is NULL exactly
\* when c is not a component of e or f is not a field of c; otherwise it is the
\* address of the row that holds e: byte row * field_size of column (c, f) of
\* the chunk whose id array has e in a live row.
C4_FieldAddress ==
    \A e \in live, c \in AskedComps, f \in AskedFields :
        IF c \notin SignatureSet(e) \/ f >= all_components_data[c].number_of_fields
        THEN world_get_component_field(e, c, f) = NULL
        ELSE \E a \in 0..(number_of_archetypes - 1) :
                \E ch \in 0..(archetypes[a].number_of_chunks - 1) :
                    \E r \in 0..(archetypes[a].chunks[ch].dense_arrays_length - 1) :
                        /\ archetypes[a].chunks[ch].id_dense_array[r] = e
                        /\ world_get_component_field(e, c, f) =
                                <<a, ch, c, f, r * all_components_data[c].field_sizes[f]>>

\* After a swap-pop: the moved entity has no component 1 and no field 2, and
\* another entity sits in row 1, two bytes into the column of a two-byte field.
C4_Witness ==
    /\ \E e \in live :
        /\ MovedBySwapPop(e)
        /\ world_get_component_field(e, 1, 0) = NULL
        /\ world_get_component_field(e, 0, 2) = NULL
        /\ world_get_component_field(e, 0, 1) # NULL
    /\ \E e \in live :
        /\ SparseEntry(e).r = 1
        /\ world_get_component_field(e, 0, 0) = <<SparseEntry(e).a, SparseEntry(e).c, 0, 0, 2>>

\* C5: ids are recycled last-in first-out: while removed ids wait on the stack,
\* world_add_entity returns the one removed last. Hence n removes e1..en
\* followed by n adds return en..e1.
C5_LifoRecycling ==
    [][(added' = added + 1 /\ freed # <<>>) =>
        /\ last'.id = freed[Len(freed)]
        /\ live' = live \cup {freed[Len(freed)]}]_vars

\* Entities 0 and 1 were removed in this order and the next two adds returned
\* 1 and then 0: the stack and the rows hold them in that order.
C5_Witness ==
    /\ added = 4
    /\ live = {0, 1}
    /\ freed = <<>>
    /\ last = [op |-> "add_entity", id |-> 0]
    /\ id_stack_ids[0] = 1 /\ id_stack_ids[1] = 0
    /\ dense_array_chunk_size = 2
    /\ archetypes[0].chunks[0].id_dense_array = ToArray(<<1, 0>>)

\* C6: on a World that has seen no remove, the n-th world_add_entity returned
\* n - 1; the capacity is sparse_chunk_size doubled as often as the stack was
\* exhausted, and the stack holds the id i in slot i, so each doubling seeded
\* the next contiguous block of ids.
C6_FreshIdsAscend ==
    (removed = 0) =>
        /\ live = 0..(added - 1)
        /\ added > 0 => last = [op |-> "add_entity", id |-> added - 1]
        /\ \A i \in 0..(id_stack_capacity - 1) : id_stack_ids[i] = i
        /\ added <= id_stack_capacity
        /\ \E k \in 0..added :
            /\ id_stack_capacity = sparse_array_chunk_size * Pow2(k)
            /\ k > 0 => sparse_array_chunk_size * Pow2(k - 1) < added

\* Five adds on a World with a stack of one id: the capacity doubled three times.
C6_Witness ==
    /\ removed = 0
    /\ sparse_array_chunk_size = 1
    /\ added = 5
    /\ live = 0..4
    /\ id_stack_capacity = 8

\* C7: no two archetypes of the World have equal components lists.
C7_ArchetypeUniqueness ==
    \A a, b \in 0..(number_of_archetypes - 1) :
        a # b => archetypes[a].components # archetypes[b].components

\* Two archetypes, one of them matched again by a later add.
C7_Witness ==
    /\ number_of_archetypes = 2
    /\ \E e1, e2, e3 \in live :
        /\ e1 # e2
        /\ SparseEntry(e1).a = SparseEntry(e2).a
        /\ SparseEntry(e3).a # SparseEntry(e1).a

\* C8: entities added with the same set of component ids, in whatever order,
\* are in the same archetype, and that set has one archetype only.
C8_OrderAgnosticSignature ==
    /\ \A e1, e2 \in live :
        SignatureSet(e1) = SignatureSet(e2) => SparseEntry(e1).a = SparseEntry(e2).a
    /\ \A e \in live :
        Cardinality({a \in 0..(number_of_archetypes - 1) :
            Elems(archetypes[a].components, archetypes[a].number_of_components) = SignatureSet(e)}) = 1

\* Two live entities were added with the two orders of the same two ids.
C8_Witness ==
    \E e1, e2 \in live :
        /\ signature[e1] = ToArray(<<0, 1>>)
        /\ signature[e2] = ToArray(<<1, 0>>)

\* C9: every archetype's components list is strictly ascending.
C9_CanonicalSignature ==
    \A a \in 0..(number_of_archetypes - 1) :
        \A i, j \in 0..(archetypes[a].number_of_components - 1) :
            i < j => archetypes[a].components[i] < archetypes[a].components[j]

\* The last add was called with the ids in descending order and created the
\* archetype it is in: it is the first entity ever put in its only chunk.
C9_Witness ==
    /\ last.op = "add_entity"
    /\ last.id \in live
    /\ signature[last.id] = ToArray(<<1, 0>>)
    /\ SparseEntry(last.id) = [a |-> number_of_archetypes - 1, c |-> 0, r |-> 0]
    /\ archetypes[number_of_archetypes - 1].number_of_chunks = 1
    /\ ChunkOf(last.id).id_dense_array[1] = Uninit

\* C10: for every chunk and every registered component id k, the chunk has a
\* column vector for k exactly when k is in its archetype's components list.
C10_ColumnExistence ==
    \A p \in AllChunks : \A k \in 0..(number_of_components - 1) :
        HasColumns(archetypes[p[1]].chunks[p[2]], k)
            <=> k \in Elems(archetypes[p[1]].components, archetypes[p[1]].number_of_components)

\* One chunk was created before the second component was registered, another
\* chunk after it; the second holds no column for the component it lacks.
C10_Witness ==
    /\ number_of_components = 2
    /\ \E p \in AllChunks :
        /\ DOMAIN archetypes[p[1]].chunks[p[2]].component_field_arrays = {0}
        /\ HasColumns(archetypes[p[1]].chunks[p[2]], 0)
    /\ \E p \in AllChunks :
        /\ DOMAIN archetypes[p[1]].chunks[p[2]].component_field_arrays = {0, 1}
        /\ HasColumns(archetypes[p[1]].chunks[p[2]], 0)
        /\ ~HasColumns(archetypes[p[1]].chunks[p[2]], 1)

\* The live rows of the World: <<archetype, chunk, row>> with the row below the chunk's length.
LiveRows ==
    {q \in AllChunks \X (0..(dense_array_chunk_size - 1)) :
        q[2] < archetypes[q[1][1]].chunks[q[1][2]].dense_arrays_length}

\* The id in a row.
IdAt(q) == archetypes[q[1][1]].chunks[q[1][2]].id_dense_array[q[2]]

\* C11: every live row of every chunk holds the id of a live entity, and no id
\* is in two live rows of the World.
C11_LiveRows ==
    /\ \A q \in LiveRows : IdAt(q) \in live
    /\ \A q1, q2 \in LiveRows : q1 # q2 => IdAt(q1) # IdAt(q2)

\* After a swap-pop in one archetype, with live rows in two archetypes: the
\* moved entity's id is also in the dead row it came from.
C11_Witness ==
    /\ last.op = "remove_entity"
    /\ \E e \in live : MovedBySwapPop(e)
    /\ \E q1, q2 \in LiveRows : q1[1][1] # q2[1][1]

\* C12: every chunk of every archetype has 0 <= length <= dense_chunk_size,
\* whatever dense_chunk_size the World was created with.
C12_ChunkLengthBound ==
    \A p \in AllChunks :
        /\ 0 <= archetypes[p[1]].chunks[p[2]].dense_arrays_length
        /\ archetypes[p[1]].chunks[p[2]].dense_arrays_length <= dense_array_chunk_size

\* C12 for the Worlds created with a dense chunk size of at least 1.
C12_LengthBoundOfPositiveSizes ==
    dense_array_chunk_size > 0 => C12_ChunkLengthBound

\* Entity ids beyond the sparse index: their sub-array is one of the two after the last one.
OutOfRangeIds ==
    {e \in 0..(sparse_array_chunk_size * (sparse_array_number_of_chunks + 2) - 1) :
        e \div sparse_array_chunk_size >= sparse_array_number_of_chunks}

\* C13: for an entity id whose sub-array the sparse index does not have,
\* world_get_component_field returns NULL, whatever the component id and the
\* field index.
C13_OutOfRangeIsNull ==
    \A e \in OutOfRangeIds, c \in AskedComps, f \in AskedFields :
        world_get_component_field(e, c, f) = NULL

\* The sparse index has grown to two sub-arrays; a live entity has a field
\* address, and the id one whole sparse index further has none.
C13_Witness ==
    /\ sparse_array_number_of_chunks = 2
    /\ \E e \in live :
        /\ world_get_component_field(e, 0, 0) # NULL
        /\ e + sparse_array_chunk_size * sparse_array_number_of_chunks \in OutOfRangeIds
        /\ world_get_component_field(e + sparse_array_chunk_size * sparse_array_number_of_chunks, 0, 0) = NULL

\* The chunks of the archetypes that world_get_component_iterator selects for a request.
SelectedChunks(component_ids, number_of_comps) ==
    {p \in AllChunks : does_archetype_have_components(archetypes[p[1]], component_ids, number_of_comps)}

\* The place of the chunk p among the chunks S, by archetype id and then by chunk index.
PlaceIn(S, p) ==
    Cardinality({q \in S : q[1] < p[1] \/ (q[1] = p[1] /\ q[2] < p[2])})

\* C14: the iterator has one record per chunk, empty or not, of every archetype
\* it selects, in the order of archetype id and then chunk index; number_of_chunks
\* is their number, and both buffers are NULL when it is 0. Record i has one
\* entry per requested id, entry k being the chunk's column vector of the k-th
\* id of the request, and chunk_lengths[i] is the chunk's length.
C14_IteratorPayload ==
    \A R \in Requests :
        LET n == Cardinality(DOMAIN R)
            it == world_get_component_iterator(R, n)
            S == SelectedChunks(R, n)
        IN  /\ it.number_of_chunks = Cardinality(S)
            /\ S = {} => it.component_field_arrays = NULL /\ it.chunk_lengths = NULL
            /\ \A p \in S :
                /\ it.chunk_lengths[PlaceIn(S, p)] = archetypes[p[1]].chunks[p[2]].dense_arrays_length
                /\ DOMAIN it.component_field_arrays[PlaceIn(S, p)] = 0..(n - 1)
                /\ \A k \in 0..(n - 1) :
                    /\ HasColumns(archetypes[p[1]].chunks[p[2]], R[k])
                    /\ it.component_field_arrays[PlaceIn(S, p)][k] = <<p[1], p[2], R[k]>>

\* A request for component 0 gets three records over two archetypes, an empty
\* chunk among them; the request [1, 0] gets the columns of 1 before those of 0;
\* a request for component 1 alone has records although archetype 0 lacks it.
C14_Witness ==
    /\ number_of_archetypes = 2
    /\ LET it == world_get_component_iterator(ToArray(<<0>>), 1)
       IN  /\ it.number_of_chunks = 3
           /\ \E i \in 0..2 : it.chunk_lengths[i] = 0
           /\ \E i \in 0..2 : it.chunk_lengths[i] = 2
    /\ LET it == world_get_component_iterator(ToArray(<<1, 0>>), 2)
       IN  /\ it.number_of_chunks = 1
           /\ it.component_field_arrays[0][0][3] = 1
           /\ it.component_field_arrays[0][1][3] = 0

\* The set of component ids a request names.
RequestSet(R) == {R[i] : i \in DOMAIN R}

\* C15: two requests that name the same set of component ids, in any order and
\* with or without a repeated id, select the same archetypes and chunks.
C15_MatchingBySetMembership ==
    \A R1, R2 \in Requests :
        RequestSet(R1) = RequestSet(R2) =>
            /\ SelectedChunks(R1, Cardinality(DOMAIN R1)) = SelectedChunks(R2, Cardinality(DOMAIN R2))
            /\ IteratorChunks(0, R1, Cardinality(DOMAIN R1)) = IteratorChunks(0, R2, Cardinality(DOMAIN R2))

\* C15 for two requests that are reorderings of each other.
C15_MatchingOfReorderedRequests ==
    \A R1, R2 \in Requests :
        (RequestSet(R1) = RequestSet(R2) /\ Cardinality(DOMAIN R1) = Cardinality(DOMAIN R2)) =>
            IteratorChunks(0, R1, Cardinality(DOMAIN R1)) = IteratorChunks(0, R2, Cardinality(DOMAIN R2))

\* An archetype of the World has exactly the component ids of the set S.
HasArchetypeOf(S) ==
    \E a \in 0..(number_of_archetypes - 1) :
        Elems(archetypes[a].components, archetypes[a].number_of_components) = S

\* What C16 says of one step.
C16_Step ==
    /\ number_of_archetypes' >= number_of_archetypes
    /\ \A a \in 0..(number_of_archetypes - 1) :
        /\ archetypes'[a].components = archetypes[a].components
        /\ archetypes'[a].archetype_id = a
    /\ \A e \in live' \ live :
        ~HasArchetypeOf(SignatureSet(e)') =>
            /\ number_of_archetypes' = number_of_archetypes + 1
            /\ SparseEntry(e)'.a = number_of_archetypes
            /\ archetypes'[number_of_archetypes].archetype_id = number_of_archetypes
            /\ Elems(archetypes'[number_of_archetypes].components,
                     archetypes'[number_of_archetypes].number_of_components) = SignatureSet(e)'

\* C16: an add with a signature not seen before creates the archetype whose id
\* is the number of archetypes created before it; an archetype id keeps its
\* components list and the archetype count never decreases, for as many
\* distinct signatures as the registered components allow.
C16_StableArchetypeIds == [][C16_Step]_vars

\* C17: the k-th world_add_component_type returns k - 1, an id no earlier
\* registration returned, also when the field-size list is one registered
\* before; the record of the new id holds the passed field sizes in order; the
\* archetypes with their chunks, the sparse index and the id stack are left as
\* they were.
C17_SequentialComponentIds ==
    [][(registered' = registered + 1) =>
        /\ last'.id = registered
        /\ last'.id \notin 0..(registered - 1)
        /\ \E fs \in FieldSizeLists :
            /\ all_components_data'[last'.id].number_of_fields = Len(fs)
            /\ all_components_data'[last'.id].field_sizes = ToArray(fs)
        /\ UNCHANGED <<archetypes, number_of_archetypes, sparse_array_chunks, sparse_array_number_of_chunks>>
        /\ UNCHANGED <<id_stack_ids, id_stack_capacity, id_stack_top_index>>]_vars

\* C18: world_remove_entity(d), with d's sparse entry (a, c, r) and the length L
\* of chunk (a, c) before the call, leaves that chunk with length L - 1. If
\* r = L - 1 no other entity's sparse entry changes. If r < L - 1 the entity that
\* was in row L - 1 of chunk (a, c) is in row r of it and has the sparse entry
\* (a, c, r), and every other live entity keeps its sparse entry and its row.
C18_RemoveEffect ==
    [][\A d \in live \ live' :
        LET a == SparseEntry(d).a
            c == SparseEntry(d).c
            r == SparseEntry(d).r
            L == ChunkOf(d).dense_arrays_length
        IN  /\ archetypes'[a].chunks[c].dense_arrays_length = L - 1
            /\ r = L - 1 => \A e \in live' : SparseEntry(e)' = SparseEntry(e)
            /\ r < L - 1 =>
                \A e \in live' :
                    IF e = ChunkOf(d).id_dense_array[L - 1]
                    THEN /\ SparseEntry(e) = [a |-> a, c |-> c, r |-> L - 1]
                         /\ SparseEntry(e)' = [a |-> a, c |-> c, r |-> r]
                         /\ archetypes'[a].chunks[c].id_dense_array[r] = e
                    ELSE /\ SparseEntry(e)' = SparseEntry(e)
                         /\ ChunkOf(e)'.id_dense_array[SparseEntry(e).r] = e]_vars

\* The remove took row 0 of the second chunk of an archetype whose first chunk
\* is full: the entity moved into the row came from row 1 of the second chunk.
C18_Witness ==
    /\ last.op = "remove_entity"
    /\ \E e \in live :
        /\ MovedBySwapPop(e)
        /\ SparseEntry(e).c = 1
        /\ SparseEntry(e).r = 0
        /\ archetypes[SparseEntry(e).a].chunks[0].dense_arrays_length = 2

\* The chunks that hold the id e in a live row.
ChunksHolding(e) ==
    {p \in AllChunks :
        \E r \in 0..(archetypes[p[1]].chunks[p[2]].dense_arrays_length - 1) :
            archetypes[p[1]].chunks[p[2]].id_dense_array[r] = e}

\* C19: world_remove_entity(d) leaves every chunk but the one that held d with
\* its length, its live ids and its column contents; no archetype loses a
\* chunk and the World loses no archetype, also when the chunk or the
\* archetype of d is left without entities.
C19_IntraChunkNoReclaim ==
    [][\A d \in live \ live' :
        /\ number_of_archetypes' >= number_of_archetypes
        /\ \A a \in 0..(number_of_archetypes - 1) :
            archetypes'[a].number_of_chunks >= archetypes[a].number_of_chunks
        /\ \A p \in AllChunks \ ChunksHolding(d) :
            /\ archetypes'[p[1]].chunks[p[2]].dense_arrays_length = archetypes[p[1]].chunks[p[2]].dense_arrays_length
            /\ \A r \in 0..(archetypes[p[1]].chunks[p[2]].dense_arrays_length - 1) :
                archetypes'[p[1]].chunks[p[2]].id_dense_array[r] = archetypes[p[1]].chunks[p[2]].id_dense_array[r]
            /\ archetypes'[p[1]].chunks[p[2]].component_field_arrays = archetypes[p[1]].chunks[p[2]].component_field_arrays]_vars

\* The remove emptied the second chunk, which the archetype keeps, next to a
\* full first chunk whose rows hold values the caller wrote.
C19_Witness ==
    /\ last.op = "remove_entity"
    /\ number_of_archetypes = 1
    /\ archetypes[0].number_of_chunks = 2
    /\ archetypes[0].chunks[1].dense_arrays_length = 0
    /\ archetypes[0].chunks[0].dense_arrays_length = 2
    /\ \E e1, e2 \in live :
        /\ FieldValue(e1, 0, 0) = BytesOf(1, 2)
        /\ FieldValue(e2, 0, 0) = BytesOf(2, 2)

\* The chunks of the archetype a, if the World has it, that are not full.
RoomIn(a) ==
    IF a < number_of_archetypes
    THEN {i \in 0..(archetypes[a].number_of_chunks - 1) :
            archetypes[a].chunks[i].dense_arrays_length < dense_array_chunk_size}
    ELSE {}

\* The number of chunks of the archetype a, 0 if the World does not have it yet.
ChunkCount(a) == IF a < number_of_archetypes THEN archetypes[a].number_of_chunks ELSE 0

\* Every archetype with k entities has ceil(k / dense_chunk_size) chunks, all full but possibly the last.
FilledInOrder ==
    \A a \in 0..(number_of_archetypes - 1) :
        LET k == Cardinality({e \in live : SparseEntry(e).a = a})
            n == archetypes[a].number_of_chunks
        IN  /\ n = (k + dense_array_chunk_size - 1) \div dense_array_chunk_size
            /\ \A i \in 0..(n - 2) : archetypes[a].chunks[i].dense_arrays_length = dense_array_chunk_size
            /\ archetypes[a].chunks[n - 1].dense_arrays_length = k - (n - 1) * dense_array_chunk_size

\* C20: world_add_entity puts the new entity in row `length` of the lowest
\* chunk of its archetype that is not full, and raises the length of that chunk
\* only; it appends a chunk exactly when the archetype has no chunk with room,
\* and the entity is then in row 0 of that last chunk. Without removes an
\* archetype of n entities so has ceil(n / dense_chunk_size) chunks, all full
\* but possibly the last.
C20_FirstFitAppend ==
    [][/\ \A e \in live' \ live :
            \E a \in 0..number_of_archetypes, c \in 0..added, r \in 0..(dense_array_chunk_size - 1) :
                /\ SparseEntry(e)' = [a |-> a, c |-> c, r |-> r]
                /\ archetypes'[a].chunks[c].id_dense_array[r] = e
                /\ archetypes'[a].chunks[c].dense_arrays_length = r + 1
                /\ IF RoomIn(a) # {}
                   THEN /\ c = Min(RoomIn(a))
                        /\ r = archetypes[a].chunks[c].dense_arrays_length
                        /\ archetypes'[a].number_of_chunks = ChunkCount(a)
                   ELSE /\ c = ChunkCount(a)
                        /\ r = 0
                        /\ archetypes'[a].number_of_chunks = ChunkCount(a) + 1
                /\ \A p \in AllChunks \ {<<a, c>>} :
                    archetypes'[p[1]].chunks[p[2]].dense_arrays_length = archetypes[p[1]].chunks[p[2]].dense_arrays_length
       /\ removed' = 0 => FilledInOrder']_vars

\* The last add filled the hole a remove left in the first chunk, although the
\* second chunk had room as well; the archetype keeps its two chunks.
C20_Witness ==
    /\ last.op = "add_entity"
    /\ dense_array_chunk_size = 2
    /\ archetypes[0].number_of_chunks = 2
    /\ SparseEntry(last.id) = [a |-> 0, c |-> 0, r |-> 1]
    /\ archetypes[0].chunks[1].dense_arrays_length = 1

\* C21: when world_add_entity writes the sparse entry of the id it allocated,
\* the id's sub-array index id / sparse_chunk_size is below the number of
\* sub-arrays the growth step left: the write is inside the sparse index,
\* whatever number of sub-arrays the World started with.
C21_SparseCapacity ==
    [][\A e \in live' \ live :
        /\ e \div sparse_array_chunk_size < sparse_array_number_of_chunks'
        /\ sparse_array_number_of_chunks' \in {sparse_array_number_of_chunks, sparse_array_number_of_chunks + 1}
        /\ fault' # "sparse_array_chunks written out of bounds"]_vars

\* After removes, an add got the fresh id 3 from the doubled stack and the
\* sparse index of one-entry sub-arrays has grown to four of them.
C21_Witness ==
    /\ last = [op |-> "add_entity", id |-> 3]
    /\ removed > 0
    /\ sparse_array_chunk_size = 1
    /\ sparse_array_number_of_chunks = 4
    /\ id_stack_capacity = 4

C22_TableCoversArchetype ==
    \A p \in AllChunks :
        Elems(archetypes[p[1]].components, archetypes[p[1]].number_of_components)
            \subseteq DOMAIN archetypes[p[1]].chunks[p[2]].component_field_arrays

\* The stack slots that hold the ids waiting to be handed out.
FreeSlots == id_stack_top_index..(id_stack_capacity - 1)

\* C23: id_stack_top_index is the number of live entities and the number of
\* live rows of all chunks; the slots from id_stack_top_index up to the capacity
\* hold, each once, exactly the ids below the capacity that are not live. Hence
\* the id the next world_add_entity returns, from the top slot or from a
\* doubled stack, is not live.
C23_IdStackPartition ==
    /\ id_stack_top_index = Cardinality(live)
    /\ id_stack_top_index = Cardinality(LiveRows)
    /\ {id_stack_ids[i] : i \in FreeSlots} = (0..(id_stack_capacity - 1)) \ live
    /\ \A i, j \in FreeSlots : i # j => id_stack_ids[i] # id_stack_ids[j]
    /\ IF id_stack_top_index < id_stack_capacity
       THEN id_stack_ids[id_stack_top_index] \notin live
       ELSE id_stack_top_index \notin live

\* On a stack that has doubled to four ids, the ids 2 and 0 were removed in
\* this order and wait in the two upper slots, while 1 and 3 are live.
C23_Witness ==
    /\ id_stack_capacity = 4
    /\ id_stack_top_index = 2
    /\ live = {1, 3}
    /\ id_stack_ids[2] = 0
    /\ id_stack_ids[3] = 2
    /\ sparse_array_chunk_size = 2

\* C24: world_add_entity leaves the sparse entry of every entity that was live
\* before the call, and what a caller reads in each of its fields, as they
\* were, whatever the call reuses, appends, creates or grows.
C24_AddLeavesOthers ==
    [][(added' = added + 1) =>
        \A e \in live :
            /\ e \in live'
            /\ SparseEntry(e)' = SparseEntry(e)
            /\ \A c \in AskedComps, f \in AskedFields : FieldValue(e, c, f)' = FieldValue(e, c, f)]_vars

\* The last add created the second archetype and grew the id stack and the
\* sparse index, while two entities of the first archetype are live, one of
\* them with both fields written.
C24_Witness ==
    /\ last = [op |-> "add_entity", id |-> 2]
    /\ number_of_archetypes = 2
    /\ SparseEntry(2) = [a |-> 1, c |-> 0, r |-> 0]
    /\ id_stack_capacity = 4
    /\ sparse_array_number_of_chunks = 2
    /\ live = {0, 1, 2}
    /\ removed = 0
    /\ \E e \in {0, 1} :
        /\ FieldValue(e, 0, 0) = BytesOf(1, 2)
        /\ FieldValue(e, 0, 1) = BytesOf(1, 1)

====
